---- MODULE Spec2Model ----
(***************************************************************************)
(* A model of the document lifecycle core of simple-rag:                   *)
(*   - HybridFileStorage (rag_core/utils/hybrid_storage.py): size-routed   *)
(*     placement of file bytes, hash dedup, retrieval;                     *)
(*   - SupabaseRAG (rag_core/pipeline/supabase_rag.py): the catalog of     *)
(*     document_files / document_metadata / knowledge_bases rows and the   *)
(*     vector index (langchain_pg_embedding);                              *)
(*   - the task tracker of api_server/main.py (task_status table and the   *)
(*     in-process progress_storage map).                                   *)
(* Every call to the relational store, the object store or the vector      *)
(* index is one atomic step that either takes effect or raises; a handler  *)
(* is the sequence of its calls, run by a worker whose position is pc.     *)
(***************************************************************************)
EXTENDS Integers, FiniteSets, Sequences, TLC

\* ------------------------------------------------------------------ bounds
\* number of distinct byte strings that are uploaded
NumContents == 2
\* ids (uuid4 values) that may be generated in one run
MaxIds == 3
\* chunks the splitter produces for a text longer than chunk_size
BigSplit == 2
\* updates of one task that are followed
MaxUpdates == 3
\* handler calls in one behaviour
MaxCalls == 3

\* ------------------------------------------------------- program constants
SIZE_THRESHOLD == 1048576
chunk_size == 1000
batch_size == 5

\* ------------------------------------------------------------- value sets
KBs == {"default", "kb2"}
Filenames == {"a.txt", "b.md"}
Workers == {1, 2}

\* The length of the i-th byte string: both sides of, and exactly at, the
\* placement threshold.
LenOf(i) ==
    CASE i % 3 = 1 -> SIZE_THRESHOLD + 1
      [] i % 3 = 2 -> SIZE_THRESHOLD
      [] OTHER     -> 1

Contents == {[tag |-> i, len |-> LenOf(i)] : i \in 1..NumContents}
NoBytes == [tag |-> 0, len |-> 0]

\* hashlib.sha256(file_content).hexdigest(): a digest, injective on Contents
Sha256(b) == <<"sha256", b.tag>>
NoHash == <<"sha256", 0>>

\* Path(filename).suffix
Suffix(fn) == IF fn = "a.txt" THEN ".txt" ELSE ".md"

\* storage_path = f"{file_hash[:2]}/{file_hash}{file_extension}"
StoragePath(h, fn) == [hash |-> h, ext |-> Suffix(fn)]
NoPath == [hash |-> NoHash, ext |-> ""]

\* HybridFileStorage._guess_content_type
GuessContentType(fn) ==
    IF Suffix(fn) = ".txt" THEN "text/plain" ELSE "text/markdown"

\* HybridFileStorage.should_use_storage
should_use_storage(file_size) == file_size > SIZE_THRESHOLD

\* the value of the file_content column: absent, the bytes themselves, or
\* the base64 text of the bytes
NoData == [enc |-> "none", b |-> NoBytes]
RawBytes(b) == [enc |-> "bytes", b |-> b]
Base64Encode(b) == [enc |-> "base64", b |-> b]

\* len(SmartTextSplitter.split_text(text)) for the text of a document (a
\* Document is never blank: Document.__post_init__ strips the content and
\* raises on an empty one)
SplitCount(b) == IF b.len <= chunk_size THEN 1 ELSE BigSplit

Min(x, y) == IF x <= y THEN x ELSE y

\* FileProcessor.process_uploaded_file: one Document, its metadata "source"
\* set to the uploaded filename
process_uploaded_file(b, fn) == <<[source |-> fn, b |-> b]>>

\* SmartTextSplitter.split_documents: the chunks of each document in order,
\* each with a copy of the document's metadata and its chunk_index
RECURSIVE split_documents(_)
split_documents(documents) ==
    IF documents = <<>> THEN <<>>
    ELSE [i \in 1 .. SplitCount(Head(documents).b) |->
             [source |-> Head(documents).source, chunk_index |-> i - 1]]
         \o split_documents(Tail(documents))

\* a count that matches the chunks against a name they never carry (a
\* variant of ChunkCount)
ChunkCountUnknown(orig_doc, split_docs) ==
    Cardinality({i \in DOMAIN split_docs : split_docs[i].source = "unknown"})

\* chunk_count = sum(1 for doc in split_docs
\*                   if doc.metadata.get("source") == orig_doc.metadata.get("source"))
ChunkCount(orig_doc, split_docs) ==
    Cardinality({i \in DOMAIN split_docs : split_docs[i].source = orig_doc.source})

\* the chunk_count the metadata writers compute for the document of an upload
UploadChunkCount(b, fn) ==
    LET documents == process_uploaded_file(b, fn)
    IN  ChunkCount(documents[1], split_documents(documents))

\* -------------------------------------------------------------- the state
VARIABLES
    document_files,      \* rows of table document_files (FileRecords)
    document_metadata,   \* rows of table document_metadata (ChunkSetRecords)
    knowledge_bases,     \* table knowledge_bases: name -> row (name is unique)
    embeddings,          \* vector index: <<collection, filename>> -> number of chunks
    bucket,              \* object store: set of [path, data]
    nextId,              \* the next generated id
    pc,                  \* worker -> position inside its handler
    loc,                 \* worker -> the handler's arguments, locals and result
    calls,               \* number of handler calls started so far
    prev,                \* worker -> the store call it completed just before its
                         \* current store call (Loc0 when there is none)
    faulted,             \* some external call has raised so far
    task_status,         \* table task_status: the durable task row
    progress_storage,    \* the in-process map of api_server
    clock,               \* datetime.now() as a counter
    updates,             \* the updates of the task so far, in order
    got,                 \* the response of the last get_task_status, and the
                         \* number of updates that preceded it
    task,                \* the background task of an upload: its function, its
                         \* arguments and its position
    splitter             \* a SmartTextSplitter and the text it is given: its
                         \* configuration, the text, and what split_text returned

dbvars == <<document_files, document_metadata, knowledge_bases, embeddings, bucket, nextId>>
procvars == <<pc, loc, prev, calls, faulted>>
taskvars == <<task_status, progress_storage, clock, updates, got, task>>
vars == <<document_files, document_metadata, knowledge_bases, embeddings, bucket,
          nextId, pc, loc, prev, calls, faulted, task_status, progress_storage, clock,
          updates, got, task, splitter>>

NoRow == [document_count |-> -1, chunk_count |-> -1]

\* a worker's frame: the call it runs (or ran last)
Loc0 ==
    [op |-> "none", kb |-> "", akb |-> "", fn |-> "", b |-> NoBytes,
     id |-> 0, added |-> 0, dc |-> 0, cc |-> 0, kbrow |-> FALSE,
     found |-> FALSE, ins |-> 0, upl |-> 0,
     ret |-> "none", rid |-> 0, path |-> NoPath,
     ofn |-> "", oct |-> "", odata |-> NoData,
     snap |-> <<0, 0, 0>>, tg |-> {},
     storage_files |-> {}, db_paths_set |-> {}, orphaned_count |-> 0]

\* no row / no entry for the task
NoTask ==
    [status |-> "none", progress |-> -1, message |-> -1, error |-> "None",
     created_at |-> -1, updated_at |-> -1]

\* no upload yet
NoJob == [pc |-> "none", kind |-> "none", b |-> NoBytes, fn |-> "", knowledge_base |-> ""]

\* no response yet
NoResponse == [code |-> 0, status |-> "none", progress |-> -1, message |-> -1, at |-> -1]

InitDb ==
    /\ document_files = {}
    /\ document_metadata = {}
    /\ knowledge_bases = [k \in KBs |-> NoRow]
    /\ embeddings = [x \in KBs \X Filenames |-> 0]
    /\ bucket = {}
    /\ nextId = 1

InitProcs ==
    /\ pc = [p \in Workers |-> "idle"]
    /\ loc = [p \in Workers |-> Loc0]
    /\ prev = [p \in Workers |-> Loc0]
    /\ calls = 0
    /\ faulted = FALSE

InitTasks ==
    /\ task_status = NoTask
    /\ progress_storage = NoTask
    /\ clock = 0
    /\ updates = <<>>
    /\ got = NoResponse
    /\ task = NoJob

\* no splitter under test; config is the configured (chunk_size,
\* chunk_overlap), chunk_size and chunk_overlap are the splitter's own
NoSplitter ==
    [config |-> <<0, 0>>, text |-> <<>>, chunk_size |-> 0, chunk_overlap |-> 0,
     state |-> "none", base |-> <<>>, chunks |-> <<>>]

Init == InitDb /\ InitProcs /\ InitTasks /\ splitter = NoSplitter

\* -------------------------------------------------------- worker plumbing
Idle(p) == pc[p] = "idle"

\* a worker enters a handler; prev keeps the frame of the store call it follows
Call(p, frame, label) ==
    /\ Idle(p)
    /\ calls < MaxCalls
    /\ calls' = calls + 1
    /\ pc' = [pc EXCEPT ![p] = label]
    /\ prev' = [prev EXCEPT ![p] = IF frame.op = "store_file" /\ loc[p].op = "store_file"
                                    THEN loc[p] ELSE Loc0]
    /\ loc' = [loc EXCEPT ![p] = frame]

Goto(p, label, frame) ==
    /\ pc' = [pc EXCEPT ![p] = label]
    /\ loc' = [loc EXCEPT ![p] = frame]
    /\ UNCHANGED <<prev, calls>>

\* the handler returns value r
Return(p, r, frame) ==
    /\ pc' = [pc EXCEPT ![p] = "idle"]
    /\ loc' = [loc EXCEPT ![p] = [frame EXCEPT !.ret = r, !.added = 0, !.dc = 0,
                                                !.cc = 0, !.kbrow = FALSE]]
    /\ UNCHANGED <<prev, calls>>

Fault == faulted' = TRUE
NoFault == UNCHANGED faulted

\* ------------------------------------------- HybridFileStorage.store_file
\* a lookup that never finds a row (a variant of check_file_exists)
NoRows(file_hash) == {}

\* HybridFileStorage._check_file_exists: the rows a lookup by hash returns
\* (the query filters on file_hash alone)
check_file_exists(file_hash) == {f \in document_files : f.file_hash = file_hash}

\* after the dedup check: the placement decision of store_file
Placement(b) == IF should_use_storage(b.len) THEN "sf_upload" ELSE "sf_insert"

\* store_file returns the record with id frame.rid
SfReturn(p, frame) == Return(p, "ok", frame)

\* store_file raises
SfRaise(p, frame) == Return(p, "raise", frame)

\* a client calls store_file(file_content, filename, collection_name)
SfStart(p) ==
    \E b \in Contents, fn \in Filenames, kb \in KBs :
        /\ nextId <= MaxIds
        /\ Call(p, [Loc0 EXCEPT !.op = "store_file", !.akb = kb, !.fn = fn, !.b = b],
                "sf_check")
        /\ UNCHANGED <<dbvars, faulted, taskvars, splitter>>

\* a variant of SfCheck that sees the existing row and stores all the same
SfCheckNoEarlyReturn(p) ==
    /\ pc[p] = "sf_check"
    /\ UNCHANGED <<dbvars, taskvars, splitter>>
    /\ NoFault
    /\ Goto(p, Placement(loc[p].b),
            [loc[p] EXCEPT !.found = check_file_exists(Sha256(loc[p].b)) # {}])

\* existing = await self._check_file_exists(file_hash); if existing: return existing
SfCheck(p) ==
    /\ pc[p] = "sf_check"
    /\ UNCHANGED <<dbvars, taskvars, splitter>>
    /\ LET rows == check_file_exists(Sha256(loc[p].b)) IN
        \/ /\ rows # {}
           /\ NoFault
           /\ \E f \in rows :
                SfReturn(p, [loc[p] EXCEPT !.found = TRUE, !.rid = f.id])
        \/ /\ rows = {}
           /\ NoFault
           /\ Goto(p, Placement(loc[p].b), loc[p])
        \/ \* the select raises: _check_file_exists returns None
           /\ Fault
           /\ Goto(p, Placement(loc[p].b), loc[p])

\* a variant of SfUpload that swallows a failed upload and goes on to the
\* insert with the locator
SfUploadSwallow(p) ==
    /\ pc[p] = "sf_upload"
    /\ UNCHANGED <<document_files, document_metadata, knowledge_bases, embeddings,
                   nextId, taskvars, splitter>>
    /\ LET path == StoragePath(Sha256(loc[p].b), loc[p].fn) IN
        \/ /\ \A o \in bucket : o.path # path
           /\ bucket' = bucket \cup {[path |-> path, data |-> loc[p].b]}
           /\ NoFault
           /\ Goto(p, "sf_insert", [loc[p] EXCEPT !.path = path, !.upl = @ + 1])
        \/ /\ \E o \in bucket : o.path = path
           /\ UNCHANGED <<bucket, faulted>>
           /\ Goto(p, "sf_insert", [loc[p] EXCEPT !.path = path])
        \/ /\ Fault
           /\ UNCHANGED bucket
           /\ Goto(p, "sf_insert", [loc[p] EXCEPT !.path = path, !.upl = @ + 1])

\* _store_in_storage: upload to the bucket, or raise
SfUpload(p) ==
    /\ pc[p] = "sf_upload"
    /\ UNCHANGED <<document_files, document_metadata, knowledge_bases, embeddings,
                   nextId, taskvars, splitter>>
    /\ LET path == StoragePath(Sha256(loc[p].b), loc[p].fn) IN
        \/ /\ \A o \in bucket : o.path # path
           /\ bucket' = bucket \cup {[path |-> path, data |-> loc[p].b]}
           /\ NoFault
           /\ Goto(p, "sf_insert", [loc[p] EXCEPT !.path = path, !.upl = @ + 1])
        \/ \* upload() is called without upsert: an object already at the
           \* path makes it raise
           /\ \E o \in bucket : o.path = path
           /\ UNCHANGED <<bucket, faulted>>
           /\ SfRaise(p, loc[p])
        \/ /\ Fault
           /\ UNCHANGED bucket
           /\ SfRaise(p, loc[p])

\* the row store_file inserts
FileInfo(id, b, fn, kb, path) ==
    [id |-> id, filename |-> fn, original_filename |-> fn,
     content_type |-> GuessContentType(fn), file_size |-> b.len,
     file_hash |-> Sha256(b), collection_name |-> kb,
     storage_path |-> path,
     file_content |-> IF path = NoPath THEN RawBytes(b) ELSE NoData]

\* self.supabase.table("document_files").insert(file_info).execute()
SfInsert(p) ==
    /\ pc[p] = "sf_insert"
    /\ UNCHANGED <<document_metadata, knowledge_bases, embeddings, bucket, taskvars, splitter>>
    /\ \/ /\ nextId <= MaxIds
          /\ document_files' = document_files \cup
                {FileInfo(nextId, loc[p].b, loc[p].fn, loc[p].akb, loc[p].path)}
          /\ nextId' = nextId + 1
          /\ NoFault
          /\ SfReturn(p, [loc[p] EXCEPT !.rid = nextId, !.ins = @ + 1])
       \/ /\ Fault
          /\ UNCHANGED <<document_files, nextId>>
          /\ SfRaise(p, loc[p])

StoreFileSteps(p) == SfCheck(p) \/ SfUpload(p) \/ SfInsert(p)

\* --------------------------- HybridFileStorage.cleanup_orphaned_files
\* the folder an object is stored in: the first two characters of its hash
Folder(path) == [hash |-> <<"sha256[:2]", path.hash[2]>>, ext |-> ""]

\* a listing that names every object by its full path (a variant of
\* storage_list)
ListAllPaths(objects) == {o.path : o \in objects}

\* storage.from_(bucket_name).list(): the names of the entries at the root
\* of the bucket; every object store_file uploads lies inside a folder, so
\* the entries are the folders
storage_list(objects) == {Folder(o.path) : o \in objects}

ClStart(p) ==
    /\ Call(p, [Loc0 EXCEPT !.op = "cleanup_orphaned_files"], "cl_list")
    /\ UNCHANGED <<dbvars, faulted, taskvars, splitter>>

\* storage_files = self.supabase.storage.from_(self.bucket_name).list()
ClList(p) ==
    /\ pc[p] = "cl_list"
    /\ UNCHANGED <<dbvars, taskvars, splitter>>
    /\ \/ /\ NoFault
          /\ Goto(p, "cl_paths", [loc[p] EXCEPT !.storage_files = storage_list(bucket)])
       \/ /\ Fault
          /\ Return(p, "0", loc[p])

\* db_paths = select("storage_path").not_.is_("storage_path", None)
ClPaths(p) ==
    /\ pc[p] = "cl_paths"
    /\ UNCHANGED <<dbvars, taskvars, splitter>>
    /\ \/ /\ NoFault
          /\ Goto(p, "cl_remove",
                  [loc[p] EXCEPT !.db_paths_set =
                      {f.storage_path : f \in {g \in document_files :
                                                  g.storage_path # NoPath}}])
       \/ /\ Fault
          /\ Return(p, "0", loc[p])

\* for file_obj in storage_files: remove([file_obj["name"]]) when the name
\* is no storage_path of a row; remove deletes the object of exactly that name
ClRemove(p) ==
    /\ pc[p] = "cl_remove"
    /\ UNCHANGED <<document_files, document_metadata, knowledge_bases, embeddings,
                   nextId, taskvars, splitter>>
    /\ \/ /\ loc[p].storage_files = {}
          /\ UNCHANGED <<bucket, faulted>>
          /\ Return(p, "count", loc[p])
       \/ \E name \in loc[p].storage_files :
            LET rest == [loc[p] EXCEPT !.storage_files = @ \ {name}] IN
            \/ /\ name \in loc[p].db_paths_set
               /\ UNCHANGED <<bucket, faulted>>
               /\ Goto(p, "cl_remove", rest)
            \/ /\ name \notin loc[p].db_paths_set
               /\ bucket' = {o \in bucket : o.path # name}
               /\ NoFault
               /\ Goto(p, "cl_remove", [rest EXCEPT !.orphaned_count = @ + 1])
            \/ /\ name \notin loc[p].db_paths_set
               /\ Fault
               /\ UNCHANGED bucket
               /\ Return(p, "0", loc[p])

CleanupSteps(p) == ClList(p) \/ ClPaths(p) \/ ClRemove(p)

\* ------------------------------ SupabaseRAG._update_knowledge_base_stats
\* The kb whose aggregates a handler recomputes: clear_knowledge_base and the
\* refresh endpoint pass a name, every other handler passes the instance's
\* collection_name.
StatsKb(frame) ==
    IF frame.op \in {"clear_knowledge_base", "update_knowledge_base_stats"}
    THEN frame.akb ELSE frame.kb

MetaOf(kb) == {m \in document_metadata : m.collection_name = kb}

RECURSIVE SumChunks(_)
SumChunks(rows) ==
    IF rows = {} THEN 0
    ELSE LET r == CHOOSE x \in rows : TRUE
         IN r.chunk_count + SumChunks(rows \ {r})

\* every caller returns True after the stats call, whether it raised inside
\* (the exception is logged and swallowed) or not
StatsDone(p, frame) == Return(p, "True", frame)

\* doc_response = select("id", count="exact").eq("collection_name", kb_name)
StCount(p) ==
    /\ pc[p] = "st_count"
    /\ UNCHANGED <<dbvars, taskvars, splitter>>
    /\ \/ /\ NoFault
          /\ Goto(p, "st_sum",
                  [loc[p] EXCEPT !.dc = Cardinality(MetaOf(StatsKb(loc[p])))])
       \/ /\ Fault
          /\ StatsDone(p, loc[p])

\* chunk_response = select("chunk_count").eq("collection_name", kb_name)
StSum(p) ==
    /\ pc[p] = "st_sum"
    /\ UNCHANGED <<dbvars, taskvars, splitter>>
    /\ \/ /\ NoFault
          /\ Goto(p, "st_kb",
                  [loc[p] EXCEPT !.cc = SumChunks(MetaOf(StatsKb(loc[p])))])
       \/ /\ Fault
          /\ StatsDone(p, loc[p])

\* kb_response = table("knowledge_bases").select("id").eq("name", kb_name)
StKb(p) ==
    /\ pc[p] = "st_kb"
    /\ UNCHANGED <<dbvars, taskvars, splitter>>
    /\ \/ /\ NoFault
          /\ Goto(p, "st_write",
                  [loc[p] EXCEPT !.kbrow = (knowledge_bases[StatsKb(loc[p])] # NoRow)])
       \/ /\ Fault
          /\ StatsDone(p, loc[p])

\* a variant of KbRow that writes the number of records as the chunk count
KbRowCountTwice(frame) == [document_count |-> frame.dc, chunk_count |-> frame.dc]

\* the aggregates written by the update or the insert
KbRow(frame) == [document_count |-> frame.dc, chunk_count |-> frame.cc]

\* if kb_response.data: update ... else: insert ...   (name is a unique key:
\* an insert of a name that exists by now raises, an update of a name that
\* is gone changes nothing)
StWrite(p) ==
    /\ pc[p] = "st_write"
    /\ UNCHANGED <<document_files, document_metadata, embeddings, bucket, nextId,
                   taskvars, splitter>>
    /\ LET kb == StatsKb(loc[p])
           exists == knowledge_bases[kb] # NoRow IN
        \/ /\ loc[p].kbrow = exists
           /\ knowledge_bases' = [knowledge_bases EXCEPT ![kb] = KbRow(loc[p])]
           /\ NoFault
           /\ StatsDone(p, loc[p])
        \/ /\ loc[p].kbrow # exists
           /\ UNCHANGED <<knowledge_bases, faulted>>
           /\ StatsDone(p, loc[p])
        \/ /\ Fault
           /\ UNCHANGED knowledge_bases
           /\ StatsDone(p, loc[p])

StatsSteps(p) == StCount(p) \/ StSum(p) \/ StKb(p) \/ StWrite(p)

\* POST /api/v1/admin/refresh-stats: rag._update_knowledge_base_stats(kb_name)
StatsStart(p) ==
    \E kb \in KBs :
        /\ Call(p, [Loc0 EXCEPT !.op = "update_knowledge_base_stats", !.akb = kb],
                "st_count")
        /\ UNCHANGED <<dbvars, faulted, taskvars, splitter>>

\* ----------------------------------------- SupabaseRAG: the ingestion paths
\* The three handlers share their first stage: split the document and add
\* its chunks to the vector store in batches of batch_size.
Ingests(p) == loc[p].op \in {"add_file_chunks", "add_file_and_chunks", "add_chunks_only"}

\* what follows the batches in each handler
AfterVectorAdd(op) ==
    CASE op = "add_chunks_only"     -> "cm_lookup"
      [] op = "add_file_and_chunks" -> "fm_check"
      [] OTHER                      -> "fm_meta"

IngestStart(p) ==
    \E op \in {"add_file_chunks", "add_file_and_chunks", "add_chunks_only"},
       kb \in KBs, fn \in Filenames, b \in Contents :
        /\ nextId <= MaxIds
        /\ Call(p, [Loc0 EXCEPT !.op = op, !.kb = kb, !.fn = fn, !.b = b], "vs_add")
        /\ UNCHANGED <<dbvars, faulted, taskvars, splitter>>

\* batch_ids = self.vector_store.add_documents(batch), for each batch
VsAdd(p) ==
    /\ pc[p] = "vs_add"
    /\ Ingests(p)
    /\ UNCHANGED <<document_files, document_metadata, knowledge_bases, bucket, nextId,
                   taskvars, splitter>>
    /\ LET total == Len(split_documents(process_uploaded_file(loc[p].b, loc[p].fn)))
           batch == Min(batch_size, total - loc[p].added)
           key == <<loc[p].kb, loc[p].fn>> IN
        \/ /\ embeddings' = [embeddings EXCEPT ![key] = @ + batch]
           /\ NoFault
           /\ IF loc[p].added + batch = total
              THEN Goto(p, AfterVectorAdd(loc[p].op), [loc[p] EXCEPT !.added = total])
              ELSE Goto(p, "vs_add", [loc[p] EXCEPT !.added = @ + batch])
        \/ \* add_documents raises: the handler logs and returns False
           /\ Fault
           /\ UNCHANGED embeddings
           /\ Return(p, "False", loc[p])

\* the document_metadata row both metadata writers insert
DocRecord(id, file_id, fn, chunk_count, kb) ==
    [id |-> id, file_id |-> file_id, filename |-> fn, chunk_count |-> chunk_count,
     collection_name |-> kb]

\* after _store_file_metadata / _store_chunk_metadata_only ended without
\* having reached their own stats call
AfterMetadata(p, frame) ==
    IF frame.op = "add_file_and_chunks"
    THEN Goto(p, "st_count", frame)
    ELSE Return(p, "True", frame)

\* _store_chunk_metadata_only: look the raw file up by original_filename
\* and collection_name
CmLookup(p) ==
    /\ pc[p] = "cm_lookup"
    /\ UNCHANGED <<dbvars, taskvars, splitter>>
    /\ LET rows == {f \in document_files :
                       /\ f.original_filename = loc[p].fn
                       /\ f.collection_name = loc[p].kb} IN
        \/ /\ rows # {}
           /\ NoFault
           /\ \E f \in rows : Goto(p, "cm_insert", [loc[p] EXCEPT !.id = f.id])
        \/ /\ rows = {}
           /\ NoFault
           /\ Goto(p, "cm_insert", loc[p])
        \/ /\ Fault
           /\ Goto(p, "cm_insert", loc[p])

\* _store_chunk_metadata_only: insert the record, then recompute the stats
CmInsert(p) ==
    /\ pc[p] = "cm_insert"
    /\ UNCHANGED <<document_files, knowledge_bases, embeddings, bucket, taskvars, splitter>>
    /\ \/ /\ nextId <= MaxIds
          /\ document_metadata' = document_metadata \cup
                {DocRecord(nextId, loc[p].id, loc[p].fn,
                           UploadChunkCount(loc[p].b, loc[p].fn), loc[p].kb)}
          /\ nextId' = nextId + 1
          /\ NoFault
          /\ Goto(p, "st_count", loc[p])
       \/ /\ Fault
          /\ UNCHANGED <<document_metadata, nextId>>
          /\ AfterMetadata(p, loc[p])

\* _store_file_metadata: rpc check_file_exists(file_hash_input)
FmCheck(p) ==
    /\ pc[p] = "fm_check"
    /\ UNCHANGED <<dbvars, taskvars, splitter>>
    /\ LET rows == check_file_exists(Sha256(loc[p].b)) IN
        \/ /\ rows # {}
           /\ NoFault
           /\ \E f \in rows :
                Goto(p, "fm_meta", [loc[p] EXCEPT !.found = TRUE, !.id = f.id])
        \/ /\ rows = {}
           /\ NoFault
           /\ Goto(p, "fm_file", loc[p])
        \/ /\ Fault
           /\ AfterMetadata(p, loc[p])

\* the document_files row _store_file_metadata inserts: always inline, as
\* base64 text
FileRecord(id, b, fn, kb) ==
    [id |-> id, filename |-> fn, original_filename |-> fn,
     content_type |-> "application/octet-stream", file_size |-> b.len,
     file_hash |-> Sha256(b), collection_name |-> kb,
     storage_path |-> NoPath, file_content |-> Base64Encode(b)]

FmFile(p) ==
    /\ pc[p] = "fm_file"
    /\ UNCHANGED <<document_metadata, knowledge_bases, embeddings, bucket, taskvars, splitter>>
    /\ \/ /\ nextId <= MaxIds
          /\ document_files' = document_files \cup
                {FileRecord(nextId, loc[p].b, loc[p].fn, loc[p].kb)}
          /\ nextId' = nextId + 1
          /\ NoFault
          /\ Goto(p, "fm_meta", [loc[p] EXCEPT !.id = nextId, !.ins = @ + 1])
       \/ /\ Fault
          /\ UNCHANGED <<document_files, nextId>>
          /\ AfterMetadata(p, loc[p])

\* _store_file_metadata: insert the document_metadata record
FmMeta(p) ==
    /\ pc[p] = "fm_meta"
    /\ UNCHANGED <<document_files, knowledge_bases, embeddings, bucket, taskvars, splitter>>
    /\ \/ /\ nextId <= MaxIds
          /\ document_metadata' = document_metadata \cup
                {DocRecord(nextId, loc[p].id, loc[p].fn,
                           UploadChunkCount(loc[p].b, loc[p].fn), loc[p].kb)}
          /\ nextId' = nextId + 1
          /\ NoFault
          /\ AfterMetadata(p, loc[p])
       \/ /\ Fault
          /\ UNCHANGED <<document_metadata, nextId>>
          /\ AfterMetadata(p, loc[p])

IngestSteps(p) ==
    VsAdd(p) \/ CmLookup(p) \/ CmInsert(p) \/ FmCheck(p) \/ FmFile(p) \/ FmMeta(p)

\* -------------------------------------- SupabaseRAG.store_raw_file_only
StoreRawStart(p) ==
    \E kb \in KBs, fn \in Filenames, b \in Contents :
        /\ Call(p, [Loc0 EXCEPT !.op = "store_raw_file_only", !.kb = kb, !.fn = fn,
                                !.b = b], "sr_call")
        /\ UNCHANGED <<dbvars, faulted, taskvars, splitter>>

\* self.file_storage.store_file_sync(...): HybridFileStorage defines no
\* store_file_sync, the attribute lookup raises AttributeError, the handler
\* catches it and returns False
StoreRawCall(p) ==
    /\ pc[p] = "sr_call"
    /\ UNCHANGED <<dbvars, faulted, taskvars, splitter>>
    /\ Return(p, "False", loc[p])

\* ------------------------------------------------ SupabaseRAG: deletions
\* DELETE FROM langchain_pg_embedding ... WHERE c.name = :collection_name
\*   AND e.cmetadata->>'filename' = :filename
DeleteVectors(kb, fn) == [embeddings EXCEPT ![<<kb, fn>>] = 0]

\* the ChunkSetRecords a deletion is about: the record metadata_id, or the
\* records linked to file_id
Targets(op, id) ==
    {m \in document_metadata :
        IF op = "delete_chunks_only" THEN m.id = id ELSE m.file_id = id}

\* the cells <<collection, filename>> of the index that hold the chunks of
\* the targets and of nothing else
TargetCells(op, id) ==
    {<<m.collection_name, m.filename>> : m \in
        {t \in Targets(op, id) :
            /\ t.chunk_count > 0
            /\ embeddings[<<t.collection_name, t.filename>>] =
                 SumChunks({x \in Targets(op, id) :
                              /\ x.collection_name = t.collection_name
                              /\ x.filename = t.filename})}}

\* tg remembers the cells of the targets when the call began, snap the
\* number of FileRecords
DeleteStart(p) ==
    \E op \in {"delete_chunks_only", "delete_file_and_chunks"}, kb \in KBs,
       id \in 1..MaxIds :
        /\ id < nextId
        /\ Call(p, [Loc0 EXCEPT !.op = op, !.kb = kb, !.id = id,
                                !.tg = TargetCells(op, id),
                                !.snap = <<0, Cardinality(document_files), 0>>],
                IF op = "delete_chunks_only" THEN "dc_read" ELSE "df_read")
        /\ UNCHANGED <<dbvars, faulted, taskvars, splitter>>

\* delete_chunks_only 1: select("filename").eq("id", metadata_id)
DcRead(p) ==
    /\ pc[p] = "dc_read"
    /\ UNCHANGED <<dbvars, taskvars, splitter>>
    /\ LET rows == {m \in document_metadata : m.id = loc[p].id} IN
        \/ /\ NoFault
           /\ \E m \in rows : Goto(p, "dc_vec", [loc[p] EXCEPT !.fn = m.filename])
        \/ /\ rows = {}
           /\ NoFault
           /\ Return(p, "False", loc[p])
        \/ /\ Fault
           /\ Return(p, "False", loc[p])

\* delete_chunks_only 2: delete the vectors; a failure is logged and ignored
DcVec(p) ==
    /\ pc[p] = "dc_vec"
    /\ UNCHANGED <<document_files, document_metadata, knowledge_bases, bucket, nextId,
                   taskvars, splitter>>
    /\ \/ /\ embeddings' = DeleteVectors(loc[p].kb, loc[p].fn)
          /\ NoFault
       \/ /\ Fault
          /\ UNCHANGED embeddings
    /\ Goto(p, "dc_update", loc[p])

\* an update that takes one chunk off the count (a variant of Truncated)
OneChunkLess(m) == [m EXCEPT !.chunk_count = @ - 1]

\* update({"chunk_count": 0})
Truncated(m) == [m EXCEPT !.chunk_count = 0]

\* delete_chunks_only 3: update({"chunk_count": 0}).eq("id", metadata_id)
DcUpdate(p) ==
    /\ pc[p] = "dc_update"
    /\ UNCHANGED <<document_files, knowledge_bases, embeddings, bucket, nextId, taskvars, splitter>>
    /\ \/ /\ document_metadata' =
                {IF m.id = loc[p].id THEN Truncated(m) ELSE m :
                    m \in document_metadata}
          /\ NoFault
          /\ Goto(p, "st_count", loc[p])
       \/ /\ Fault
          /\ UNCHANGED document_metadata
          /\ Return(p, "False", loc[p])

\* delete_file_and_chunks 1: select("filename").eq("id", file_id)
DfRead(p) ==
    /\ pc[p] = "df_read"
    /\ UNCHANGED <<dbvars, taskvars, splitter>>
    /\ LET rows == {f \in document_files : f.id = loc[p].id} IN
        \/ /\ NoFault
           /\ \E f \in rows : Goto(p, "df_vec", [loc[p] EXCEPT !.fn = f.filename])
        \/ /\ rows = {}
           /\ NoFault
           /\ Return(p, "False", loc[p])
        \/ /\ Fault
           /\ Return(p, "False", loc[p])

\* delete_file_and_chunks 2: delete the vectors; a failure is logged and ignored
DfVec(p) ==
    /\ pc[p] = "df_vec"
    /\ UNCHANGED <<document_files, document_metadata, knowledge_bases, bucket, nextId,
                   taskvars, splitter>>
    /\ \/ /\ embeddings' = DeleteVectors(loc[p].kb, loc[p].fn)
          /\ NoFault
       \/ /\ Fault
          /\ UNCHANGED embeddings
    /\ Goto(p, "df_meta", loc[p])

\* delete_file_and_chunks 3: table("document_metadata").delete().eq("file_id", file_id)
DfMeta(p) ==
    /\ pc[p] = "df_meta"
    /\ UNCHANGED <<document_files, knowledge_bases, embeddings, bucket, nextId, taskvars, splitter>>
    /\ \/ /\ document_metadata' = {m \in document_metadata : m.file_id # loc[p].id}
          /\ NoFault
          /\ Goto(p, "df_file", loc[p])
       \/ /\ Fault
          /\ UNCHANGED document_metadata
          /\ Return(p, "False", loc[p])

\* delete_file_and_chunks 4: table("document_files").delete().eq("id", file_id)
DfFile(p) ==
    /\ pc[p] = "df_file"
    /\ UNCHANGED <<document_metadata, knowledge_bases, embeddings, bucket, nextId,
                   taskvars, splitter>>
    /\ \/ /\ document_files' = {f \in document_files : f.id # loc[p].id}
          /\ NoFault
          /\ Goto(p, "st_count", loc[p])
       \/ /\ Fault
          /\ UNCHANGED document_files
          /\ Return(p, "False", loc[p])

DeleteSteps(p) ==
    DcRead(p) \/ DcVec(p) \/ DcUpdate(p) \/ DfRead(p) \/ DfVec(p) \/ DfMeta(p) \/ DfFile(p)

\* ------------------------------------- SupabaseRAG.clear_knowledge_base
FilesOf(kb) == {f \in document_files : f.collection_name = kb}

RECURSIVE SumOver(_, _)
SumOver(f, S) ==
    IF S = {} THEN 0
    ELSE LET x == CHOOSE y \in S : TRUE IN f[x] + SumOver(f, S \ {x})

\* number of vectors of the collection kb
ChunksOf(kb) == SumOver(embeddings, {kb} \X Filenames)

\* what the knowledge base holds: ChunkSetRecords, FileRecords, Chunks
Holdings(kb) == <<Cardinality(MetaOf(kb)), Cardinality(FilesOf(kb)), ChunksOf(kb)>>

\* snap remembers what the knowledge base held when the call began
ClearStart(p) ==
    \E kb \in KBs :
        /\ Call(p, [Loc0 EXCEPT !.op = "clear_knowledge_base", !.akb = kb,
                                !.snap = Holdings(kb)], "ck_sql")
        /\ UNCHANGED <<dbvars, faulted, taskvars, splitter>>

\* conn.begin(); conn.execute(DELETE FROM langchain_pg_embedding ...): the
\* delete is pending in the transaction until the commit
CkSql(p) ==
    /\ pc[p] = "ck_sql"
    /\ UNCHANGED <<dbvars, taskvars, splitter>>
    /\ \/ /\ NoFault
          /\ Goto(p, "ck_meta", loc[p])
       \/ /\ Fault
          /\ Return(p, "False", loc[p])

\* self.supabase.table("document_metadata").delete(): a request of the REST
\* client, outside the transaction of conn and committed at once
CkMeta(p) ==
    /\ pc[p] = "ck_meta"
    /\ UNCHANGED <<document_files, knowledge_bases, embeddings, bucket, nextId, taskvars, splitter>>
    /\ \/ /\ document_metadata' =
                {m \in document_metadata : m.collection_name # loc[p].akb}
          /\ NoFault
          /\ Goto(p, "ck_files", loc[p])
       \/ \* trans.rollback(); raise
          /\ Fault
          /\ UNCHANGED document_metadata
          /\ Return(p, "False", loc[p])

\* self.supabase.table("document_files").delete(): as above
CkFiles(p) ==
    /\ pc[p] = "ck_files"
    /\ UNCHANGED <<document_metadata, knowledge_bases, embeddings, bucket, nextId,
                   taskvars, splitter>>
    /\ \/ /\ document_files' = {f \in document_files : f.collection_name # loc[p].akb}
          /\ NoFault
          /\ Goto(p, "ck_commit", loc[p])
       \/ /\ Fault
          /\ UNCHANGED document_files
          /\ Return(p, "False", loc[p])

\* trans.commit(): the pending delete of the vectors takes effect
CkCommit(p) ==
    /\ pc[p] = "ck_commit"
    /\ UNCHANGED <<document_files, document_metadata, knowledge_bases, bucket, nextId,
                   taskvars, splitter>>
    /\ \/ /\ embeddings' = [x \in KBs \X Filenames |->
                              IF x[1] = loc[p].akb THEN 0 ELSE embeddings[x]]
          /\ NoFault
          /\ Goto(p, "st_count", loc[p])
       \/ /\ Fault
          /\ UNCHANGED embeddings
          /\ Return(p, "False", loc[p])

ClearSteps(p) == CkSql(p) \/ CkMeta(p) \/ CkFiles(p) \/ CkCommit(p)

\* ------------------------------------ HybridFileStorage.get_file_content
GetStart(p) ==
    \E id \in 1..MaxIds :
        /\ id < nextId
        /\ Call(p, [Loc0 EXCEPT !.op = "get_file_content", !.id = id], "gf_read")
        /\ UNCHANGED <<dbvars, faulted, taskvars, splitter>>

\* get_file_content returns None
GfNone(p, frame) == Return(p, "None", frame)

\* the tuple (filename, content_type, content)
Tuple(frame, f, data) ==
    [frame EXCEPT !.ofn = f.filename, !.oct = f.content_type, !.odata = data]

\* HybridFileStorage.get_file_content: select("*").eq("id", file_id)
GfRead(p) ==
    /\ pc[p] = "gf_read"
    /\ UNCHANGED <<dbvars, taskvars, splitter>>
    /\ LET rows == {f \in document_files : f.id = loc[p].id} IN
        \/ /\ NoFault
           /\ \E f \in rows :
                IF f.storage_path # NoPath
                THEN Goto(p, "gf_download", loc[p])
                ELSE Return(p, "tuple", Tuple(loc[p], f, f.file_content))
        \/ /\ rows = {}
           /\ NoFault
           /\ GfNone(p, loc[p])
        \/ /\ Fault
           /\ GfNone(p, loc[p])

\* _download_from_storage(file_info["storage_path"])
GfDownload(p) ==
    /\ pc[p] = "gf_download"
    /\ UNCHANGED <<dbvars, taskvars, splitter>>
    /\ \/ /\ NoFault
          /\ \E f \in {x \in document_files : x.id = loc[p].id} :
             \E o \in {x \in bucket : x.path = f.storage_path} :
                Return(p, "tuple", Tuple(loc[p], f, RawBytes(o.data)))
       \/ /\ Fault
          /\ GfNone(p, loc[p])

\* ------------------------------------------ SupabaseRAG.get_file_content
RagGetStart(p) ==
    \E id \in 1..MaxIds :
        /\ id < nextId
        /\ Call(p, [Loc0 EXCEPT !.op = "rag_get_file_content", !.id = id], "rg_call")
        /\ UNCHANGED <<dbvars, faulted, taskvars, splitter>>

\* self.file_storage.get_file_content_sync(file_id): HybridFileStorage
\* defines no get_file_content_sync, the attribute lookup raises
\* AttributeError inside the outer try, the handler returns None
RagGetCall(p) ==
    /\ pc[p] = "rg_call"
    /\ UNCHANGED <<dbvars, faulted, taskvars, splitter>>
    /\ Return(p, "None", loc[p])

GetSteps(p) == GfRead(p) \/ GfDownload(p)

\* ------------------------------------------------ api_server: task tracker
Statuses == {"pending", "processing", "completed", "failed"}
Progresses == {0, 50, 100}

\* the arguments a caller can hand to update_task_progress(status: str,
\* progress: float): the recognized ones, an unrecognized status and
\* progress values outside [0, 1] (in hundredths)
StatusArgs == Statuses \cup {"cancelled"}
ProgressArgs == Progresses \cup {-50, 150}

\* task_data: the message of the n-th update is modelled by n
TaskData(status, progress, n, error, created_at, now) ==
    [status |-> status, progress |-> progress, message |-> n, error |-> error,
     created_at |-> created_at, updated_at |-> now]

\* update_task_progress: select created_at, upsert, copy to progress_storage;
\* on any exception only progress_storage is written
update_task_progress(status, progress, error) ==
    LET n == Len(updates) + 1
        now == clock + 1
    IN  /\ clock' = now
        /\ updates' = Append(updates, [status |-> status, progress |-> progress,
                                       message |-> n, error |-> error])
        /\ \/ LET created_at == IF task_status # NoTask
                                THEN task_status.created_at ELSE now
              IN  /\ task_status' = TaskData(status, progress, n, error, created_at, now)
                  /\ progress_storage' = task_status'
           \/ \* the select or the upsert raises
              LET created_at == IF progress_storage # NoTask
                                THEN progress_storage.created_at ELSE now
              IN  /\ UNCHANGED task_status
                  /\ progress_storage' =
                        TaskData(status, progress, n, error, created_at, now)

\* a caller updates the task
UpdateTask ==
    \E status \in StatusArgs, progress \in ProgressArgs :
        /\ Len(updates) < MaxUpdates
        /\ update_task_progress(status, progress, "None")
        /\ UNCHANGED <<dbvars, procvars, got, task, splitter>>

\* TaskStatus(**task_data), with the number of updates made before the get
Response(code, row) ==
    [code |-> code, status |-> row.status, progress |-> row.progress,
     message |-> row.message, at |-> Len(updates)]

\* get_task_status: the durable row if the select returns one, else the
\* entry of progress_storage, else 404; if the select raises, the entry of
\* progress_storage, else 500
GetTask ==
    /\ UNCHANGED <<dbvars, procvars, task_status, progress_storage, clock, updates, task, splitter>>
    /\ \/ /\ task_status # NoTask
          /\ got' = Response(200, task_status)
       \/ /\ task_status = NoTask
          /\ got' = IF progress_storage # NoTask
                    THEN Response(200, progress_storage)
                    ELSE Response(404, NoTask)
       \/ \* the select raises
          /\ got' = IF progress_storage # NoTask
                    THEN Response(200, progress_storage)
                    ELSE Response(500, NoTask)

\* ------------------------------------------ api_server: the upload tasks
\* get_rag_instance(): the instance of knowledge base "default"
DefaultKb == "default"

\* the error text of the else branch (a fixed non-empty literal)
FixedError == "error during processing"

\* the statuses after which a task is over
Terminal == {"completed", "failed"}

\* POST .../chunks/upload and POST .../files/upload: the task is recorded as
\* pending and handed to the background runner
UploadEndpoint ==
    \E kind \in {"process_file_for_chunks", "process_file_upload"},
       b \in Contents, fn \in Filenames, kb \in KBs :
        /\ task = NoJob
        /\ update_task_progress("pending", 0, "None")
        /\ task' = [pc |-> "queued", kind |-> kind, b |-> b, fn |-> fn,
                    knowledge_base |-> kb]
        /\ UNCHANGED <<dbvars, procvars, got, splitter>>

\* update_task_progress(task_id, "processing", 0.1, ...)
TaskStart ==
    /\ task.pc = "queued"
    /\ update_task_progress("processing", 10, "None")
    /\ task' = [task EXCEPT !.pc = "rag"]
    /\ UNCHANGED <<dbvars, procvars, got, splitter>>

\* rag = get_rag_instance(), then update_task_progress(task_id, "processing",
\* 0.3 or 0.5, ...); if get_rag_instance raises, the except branch records
\* failed with error = str(e)
TaskRag ==
    /\ task.pc = "rag"
    /\ UNCHANGED <<dbvars, pc, loc, prev, calls, got, splitter>>
    /\ \/ /\ NoFault
          /\ update_task_progress("processing",
                IF task.kind = "process_file_for_chunks" THEN 30 ELSE 50, "None")
          /\ task' = [task EXCEPT !.pc = "call"]
       \/ /\ Fault
          /\ update_task_progress("failed", 100, "str(e)")
          /\ task' = [task EXCEPT !.pc = "done"]

\* success = rag.add_chunks_only(file_content, filename), or
\* success = rag.store_raw_file_only(file_content, filename): rag is the
\* instance of "default", whatever knowledge_base is
TaskCall ==
    /\ task.pc = "call"
    /\ task' = [task EXCEPT !.pc = "wait"]
    /\ UNCHANGED <<dbvars, faulted, task_status, progress_storage, clock, updates, got, splitter>>
    /\ IF task.kind = "process_file_for_chunks"
       THEN Call(1, [Loc0 EXCEPT !.op = "add_chunks_only", !.kb = DefaultKb,
                                 !.fn = task.fn, !.b = task.b], "vs_add")
       ELSE Call(1, [Loc0 EXCEPT !.op = "store_raw_file_only", !.kb = DefaultKb,
                                 !.fn = task.fn, !.b = task.b], "sr_call")

\* if success: "completed", 1.0; else: "failed", 1.0 with the fixed error text
TaskFinish ==
    /\ task.pc = "wait"
    /\ Idle(1)
    /\ IF loc[1].ret = "True"
       THEN update_task_progress("completed", 100, "None")
       ELSE update_task_progress("failed", 100, FixedError)
    /\ task' = [task EXCEPT !.pc = "done"]
    /\ UNCHANGED <<dbvars, procvars, got, splitter>>

\* ------------------------------------------------------ SmartTextSplitter
\* A text is a sequence of characters.
MaxTextLen == 5
MaxChunkSize == 3

Alphabet == {"a", ".", " ", "\n"}
Whitespace == {" ", "\n"}
\* the characters of '.!?...;' that occur in the alphabet
Punctuation == {"."}

Texts == UNION {[1 .. n -> Alphabet] : n \in 0 .. MaxTextLen}

MinOf(S) == CHOOSE x \in S : \A y \in S : x <= y

\* str and List[str]
Text == Seq(Alphabet)
TextList == Seq(Text)

\* str.strip()
LStrip[t \in Text] == IF t = <<>> \/ Head(t) \notin Whitespace THEN t ELSE LStrip[Tail(t)]

RStrip[t \in Text] ==
    IF t = <<>> \/ t[Len(t)] \notin Whitespace THEN t
    ELSE RStrip[SubSeq(t, 1, Len(t) - 1)]

Strip(t) == RStrip[LStrip[t]]

\* the matches of \n\s*\n that begin at j end at a later newline with
\* nothing but whitespace in between
ParagraphBreakEnds(t, j) ==
    {k \in j + 1 .. Len(t) :
        t[k] = "\n" /\ \A i \in j + 1 .. k - 1 : t[i] \in Whitespace}

\* re.split(r'\n\s*\n', text): cut at the leftmost match, taken greedily
SplitAtParagraphBreaks[t \in Text] ==
    LET starts == {j \in 1 .. Len(t) : t[j] = "\n" /\ ParagraphBreakEnds(t, j) # {}}
    IN  IF starts = {} THEN <<t>>
        ELSE LET j == MinOf(starts)
                 ends == ParagraphBreakEnds(t, j)
                 k == CHOOSE x \in ends : \A y \in ends : y <= x
             IN  <<SubSeq(t, 1, j - 1)>>
                 \o SplitAtParagraphBreaks[SubSeq(t, k + 1, Len(t))]

\* [p.strip() for p in pieces if p.strip()]
StrippedNonEmpty[pieces \in TextList] ==
    IF pieces = <<>> THEN <<>>
    ELSE (IF Strip(Head(pieces)) = <<>> THEN <<>> ELSE <<Strip(Head(pieces))>>)
         \o StrippedNonEmpty[Tail(pieces)]

\* SmartTextSplitter._split_by_paragraphs
split_by_paragraphs(t) == StrippedNonEmpty[SplitAtParagraphBreaks[t]]

\* the end of the whitespace run that begins at j
RunEnd[t \in Text, j \in Nat] ==
    IF j < Len(t) /\ t[j + 1] \in Whitespace THEN RunEnd[t, j + 1] ELSE j

\* re.split(r'[.!?...;]\s+', text): cut at each punctuation mark that is
\* followed by whitespace; the mark and the whitespace are not in the pieces
SplitAtSentenceEnds[t \in Text] ==
    LET starts == {j \in 1 .. Len(t) - 1 :
                      t[j] \in Punctuation /\ t[j + 1] \in Whitespace}
    IN  IF starts = {} THEN <<t>>
        ELSE LET j == MinOf(starts)
             IN  <<SubSeq(t, 1, j - 1)>>
                 \o SplitAtSentenceEnds[SubSeq(t, RunEnd[t, j + 1] + 1, Len(t))]

\* text.find(sub) + 1, for a sub that occurs in text
Find(t, sub) ==
    MinOf({i \in 1 .. Len(t) - Len(sub) + 1 : SubSeq(t, i, i + Len(sub) - 1) = sub})

\* the piece as _split_by_sentences returns it: stripped, and followed by
\* the character after its first occurrence in the text when that is a
\* punctuation mark (never for the last piece)
Sentence(t, piece, last) ==
    LET sentence == Strip(piece)
        next_start == Find(t, sentence) + Len(sentence)
    IN  IF ~last /\ next_start <= Len(t) /\ t[next_start] \in Punctuation
        THEN Append(sentence, t[next_start])
        ELSE sentence

\* SmartTextSplitter._split_by_sentences: the loop over the pieces
SentencesFrom[t \in Text, pieces \in TextList, i \in Nat] ==
    IF i > Len(pieces) THEN <<>>
    ELSE (IF Strip(pieces[i]) = <<>> THEN <<>>
          ELSE <<Sentence(t, pieces[i], i = Len(pieces))>>)
         \o SentencesFrom[t, pieces, i + 1]

split_by_sentences(t) == SentencesFrom[t, SplitAtSentenceEnds[t], 1]

\* slices of one character each (a variant of Slices)
SlicesShort(t, size) == [i \in 1 .. Len(t) |-> <<t[i]>>]

\* [sentence[i:i + chunk_size] for i in range(0, len(sentence), chunk_size)]
Slices(t, size) ==
    [i \in 1 .. (Len(t) + size - 1) \div size |->
        SubSeq(t, (i - 1) * size + 1, Min(i * size, Len(t)))]

\* chunks.append(current_chunk.strip()) if current_chunk
Flush(chunks, current) == IF current = <<>> THEN chunks ELSE Append(chunks, Strip(current))

\* the accumulator takes the piece when this holds
Fits(current, piece, size) == Len(current) + Len(piece) + 1 <= size

\* SmartTextSplitter._split_large_paragraph: the loop over the sentences
PackSentences[sentences \in TextList, chunks \in TextList, current \in Text, size \in Nat] ==
    IF sentences = <<>> THEN Flush(chunks, current)
    ELSE LET sentence == Head(sentences)
             rest == Tail(sentences)
         IN  IF Len(sentence) > size
             THEN PackSentences[rest, Flush(chunks, current) \o Slices(sentence, size),
                                <<>>, size]
             ELSE IF Fits(current, sentence, size)
             THEN PackSentences[rest, chunks,
                                IF current = <<>> THEN sentence
                                ELSE current \o <<" ">> \o sentence, size]
             ELSE PackSentences[rest, Flush(chunks, current), sentence, size]

split_large_paragraph(paragraph, size) ==
    PackSentences[split_by_sentences(paragraph), <<>>, <<>>, size]

\* SmartTextSplitter.split_text: the loop over the paragraphs
PackParagraphs[paragraphs \in TextList, chunks \in TextList, current \in Text, size \in Nat] ==
    IF paragraphs = <<>> THEN Flush(chunks, current)
    ELSE LET paragraph == Head(paragraphs)
             rest == Tail(paragraphs)
         IN  IF Len(paragraph) > size
             THEN PackParagraphs[rest,
                                 Flush(chunks, current) \o split_large_paragraph(paragraph, size),
                                 <<>>, size]
             ELSE IF Fits(current, paragraph, size)
             THEN PackParagraphs[rest, chunks,
                                 IF current = <<>> THEN paragraph
                                 ELSE current \o <<"\n", "\n">> \o paragraph, size]
             ELSE PackParagraphs[rest, Flush(chunks, current), paragraph, size]

\* the chunks of split_text before the overlap is added
BaseChunks(t, size) == PackParagraphs[split_by_paragraphs(t), <<>>, <<>>, size]

\* the text put between a chunk and the overlap it receives
Separator == <<"\n", "\n">>

\* SmartTextSplitter._add_overlap: prev_chunk[-chunk_overlap:] before the
\* chunk and next_chunk[:chunk_overlap] after it, each joined by the separator
add_overlap[chunks \in TextList, overlap \in Nat] ==
    LET prev_tail(t) == SubSeq(t, IF Len(t) > overlap THEN Len(t) - overlap + 1 ELSE 1, Len(t))
        next_head(t) == SubSeq(t, 1, Min(overlap, Len(t)))
    IN  IF Len(chunks) <= 1 THEN chunks
        ELSE [i \in 1 .. Len(chunks) |->
                (IF i > 1 THEN prev_tail(chunks[i - 1]) \o Separator ELSE <<>>)
                \o chunks[i]
                \o (IF i < Len(chunks) THEN Separator \o next_head(chunks[i + 1])
                    ELSE <<>>)]

\* [chunk for chunk in chunks if chunk.strip()]
NonBlank[chunks \in TextList] ==
    IF chunks = <<>> THEN <<>>
    ELSE (IF Strip(Head(chunks)) = <<>> THEN <<>> ELSE <<Head(chunks)>>)
         \o NonBlank[Tail(chunks)]

\* a short text returned with an overlap of itself (a variant of ShortText)
ShortTextOverlapped(t) == <<t \o Separator \o t>>

\* return [text] if text else []
ShortText(t) == IF t = <<>> THEN <<>> ELSE <<t>>

\* SmartTextSplitter.split_text
split_text(t, size, overlap) ==
    IF t = <<>> \/ Len(t) <= size THEN ShortText(t)
    ELSE NonBlank[IF overlap > 0 THEN add_overlap[BaseChunks(t, size), overlap]
                  ELSE BaseChunks(t, size)]

\* ---------------------------------------------------------- RAGConfig
MaxConfig == 9

\* Python's // on integers
FloorDiv(a, b) == a \div b

\* RAGConfig.__post_init__: the (chunk_size, chunk_overlap) of the config
post_init(config) ==
    IF config[2] >= config[1] THEN <<config[1], FloorDiv(config[1], 4)>> ELSE config

\* CHUNK_SIZE and CHUNK_OVERLAP as configured
InitConfig ==
    /\ InitDb /\ InitProcs /\ InitTasks
    /\ \E size \in 0 .. MaxConfig, overlap \in 0 .. MaxConfig :
          splitter = [NoSplitter EXCEPT !.config = <<size, overlap>>,
                                        !.state = "configured"]

\* RAGConfig(...) and then SmartTextSplitter(chunk_size=config.chunk_size,
\* chunk_overlap=config.chunk_overlap)
Construct ==
    /\ splitter.state = "configured"
    /\ LET config == post_init(splitter.config)
       IN  splitter' = [splitter EXCEPT !.chunk_size = config[1],
                                        !.chunk_overlap = config[2],
                                        !.state = "constructed"]
    /\ UNCHANGED <<dbvars, procvars, taskvars>>

\* a splitter with chunk_size >= 1 and chunk_overlap < chunk_size is given a text
InitSplit ==
    /\ InitDb /\ InitProcs /\ InitTasks
    /\ \E t \in Texts, size \in 1 .. MaxChunkSize :
          \E overlap \in 0 .. size - 1 :
              splitter = [NoSplitter EXCEPT !.text = t, !.chunk_size = size,
                                            !.chunk_overlap = overlap, !.state = "ready"]

\* chunks = self.split_text(doc.content)
Split ==
    /\ splitter.state = "ready"
    /\ splitter' =
          [splitter EXCEPT
              !.state = "done",
              !.base = IF Len(splitter.text) <= splitter.chunk_size THEN <<>>
                       ELSE BaseChunks(splitter.text, splitter.chunk_size),
              !.chunks = split_text(splitter.text, splitter.chunk_size,
                                    splitter.chunk_overlap)]
    /\ UNCHANGED <<dbvars, procvars, taskvars>>

\* ------------------------------------------------------ the specifications
\* Two clients race one store_file call each against an empty store.
NextStoreRace ==
    \E p \in Workers :
        \/ (loc[p].op = "none" /\ SfStart(p))
        \/ StoreFileSteps(p)

SpecStoreRace == Init /\ [][NextStoreRace]_vars

\* The catalog, one client at a time: ingestion, deletion, clearing and the
\* recompute of the statistics, run to completion by worker 1, with failures
\* of the external calls.
NextCatalog ==
    \/ IngestStart(1) \/ IngestSteps(1)
    \/ DeleteStart(1) \/ DeleteSteps(1)
    \/ ClearStart(1) \/ ClearSteps(1)
    \/ StatsStart(1) \/ StatsSteps(1)

SpecCatalog == Init /\ [][NextCatalog]_vars

\* The file store, one client at a time: both ways a FileRecord is created
\* (HybridFileStorage.store_file, SupabaseRAG._store_file_metadata) and both
\* ways its content is read back.
NextFiles ==
    \/ SfStart(1) \/ StoreFileSteps(1) \/ StoreRawStart(1) \/ StoreRawCall(1)
    \/ IngestStart(1) \/ IngestSteps(1) \/ StatsSteps(1)
    \/ GetStart(1) \/ GetSteps(1) \/ RagGetStart(1) \/ RagGetCall(1)

SpecFiles == Init /\ [][NextFiles]_vars

\* One client stores files one call after the other.
NextStoreSeq == SfStart(1) \/ StoreFileSteps(1)

SpecStoreSeq == Init /\ [][NextStoreSeq]_vars

\* Two tasks finish concurrently: each runs one add_chunks_only or one
\* refresh of the statistics, their steps interleaved.
NextStatsRace ==
    \E p \in Workers :
        \/ (loc[p].op = "none" /\ IngestStart(p) /\ loc'[p].op = "add_chunks_only")
        \/ (loc[p].op = "none" /\ StatsStart(p))
        \/ VsAdd(p) \/ CmLookup(p) \/ CmInsert(p)
        \/ StatsSteps(p)

SpecStatsRace == Init /\ [][NextStatsRace]_vars

\* The task tracker: updates of one task and reads of its status.
NextTask == UpdateTask \/ GetTask

SpecTask == Init /\ [][NextTask]_vars

\* One upload: the endpoint creates the task, the background runner executes
\* it on the instance of "default", and clients poll its status.
NextUpload ==
    \/ UploadEndpoint \/ TaskStart \/ TaskRag \/ TaskCall \/ TaskFinish
    \/ VsAdd(1) \/ CmLookup(1) \/ CmInsert(1) \/ StatsSteps(1) \/ StoreRawCall(1)
    \/ GetTask

SpecUpload == Init /\ [][NextUpload]_vars

\* Ingestion alone: one client runs the three ingestion handlers, one call
\* after the other.
NextIngest == IngestStart(1) \/ IngestSteps(1) \/ StatsSteps(1)

SpecIngest == Init /\ [][NextIngest]_vars

\* The sweep of the bucket runs while clients store files.
NextSweep ==
    \E p \in Workers :
        \/ SfStart(p) \/ StoreFileSteps(p)
        \/ ClStart(p) \/ CleanupSteps(p)

SpecSweep == Init /\ [][NextSweep]_vars

\* The splitter applied once to each text of at most MaxTextLen characters,
\* under each configuration with chunk_overlap < chunk_size <= MaxChunkSize.
NextSplit == Split

SpecSplit == InitSplit /\ [][NextSplit]_vars

\* The splitter constructed from each configured pair of 0 .. MaxConfig.
NextConfig == Construct

SpecConfig == InitConfig /\ [][NextConfig]_vars

\* split_text is an ordinary call: once made, it runs
SpecSplitFair == SpecSplit /\ WF_vars(Split)

\* The statistics, one client at a time: chunk-sets are created and
\* truncated and the statistics are refreshed, one call after the other.
NextRecompute ==
    \/ (IngestStart(1) /\ loc'[1].op = "add_chunks_only")
    \/ VsAdd(1) \/ CmLookup(1) \/ CmInsert(1)
    \/ (DeleteStart(1) /\ loc'[1].op = "delete_chunks_only")
    \/ DcRead(1) \/ DcVec(1) \/ DcUpdate(1)
    \/ StatsStart(1) \/ StatsSteps(1)

SpecRecompute == Init /\ [][NextRecompute]_vars

\* ----------------------------------------------------------------- claims
HashRows(b) == {f \in document_files : f.file_hash = Sha256(b)}

Stored(p) == Idle(p) /\ loc[p].op = "store_file" /\ loc[p].ret = "ok"

BothStoredSame ==
    /\ Stored(1) /\ Stored(2)
    /\ loc[1].b = loc[2].b
    /\ loc[1].akb = loc[2].akb

C6_LocatorHasObject ==
    /\ \A f \in document_files :
          f.storage_path # NoPath =>
              \E o \in bucket : o.path = f.storage_path /\ Sha256(o.data) = f.file_hash
    /\ \A p \in Workers :
          (loc[p].op = "store_file" /\ should_use_storage(loc[p].b.len) /\ loc[p].ins > 0)
              => loc[p].upl > 0

C6_Witness ==
    /\ \E f \in document_files : f.storage_path # NoPath
    /\ \E p \in Workers :
          Idle(p) /\ loc[p].ret = "raise" /\ should_use_storage(loc[p].b.len)

\* Returned(p, ops): worker p has completed a call of one of ops
Returned(p, ops) == Idle(p) /\ loc[p].op \in ops

Quiescent == \A p \in Workers : Idle(p)

Consistent(kb) ==
    knowledge_bases[kb] # NoRow =>
        /\ knowledge_bases[kb].document_count = Cardinality(MetaOf(kb))
        /\ knowledge_bases[kb].chunk_count = SumChunks(MetaOf(kb))

\* C1: whenever no catalog operation is in progress, every KnowledgeBase row
\* has its file count equal to the number of ChunkSetRecords of its name and
\* its chunk count equal to the sum of their chunk_count (stated here for the
\* runs in which no external call failed).
C1_AggregatesMatchRows == (Quiescent /\ ~faulted) => \A kb \in KBs : Consistent(kb)

\* C5: after clear_knowledge_base(name) returns, with True or with False,
\* either every Chunk, ChunkSetRecord and FileRecord of name is gone or the
\* knowledge base holds what it held when the call began.
C5_AllOrNothing ==
    Returned(1, {"clear_knowledge_base"}) =>
        \/ Holdings(loc[1].akb) = <<0, 0, 0>>
        \/ Holdings(loc[1].akb) = loc[1].snap

\* C8: the record that store(b, f, kb) returns belongs to kb (stated for the
\* runs in which no external call failed).
C8_ReturnedRecordInScope ==
    \A p \in Workers :
        (Returned(p, {"store_file"}) /\ loc[p].rid # 0 /\ ~faulted) =>
            \A f \in document_files : f.id = loc[p].rid => f.collection_name = loc[p].akb

\* C9: every FileRecord is placed by the size rule: at most SIZE_THRESHOLD
\* bytes inline with no locator, more than that in the bucket with the
\* locator only.
C9_PlacedBySize ==
    \A f \in document_files :
        IF f.file_size > SIZE_THRESHOLD
        THEN f.storage_path # NoPath /\ f.file_content = NoData
        ELSE f.storage_path = NoPath /\ f.file_content # NoData

\* C10: a retrieve that returns a tuple returns the record's filename and
\* content type and the very bytes that were stored (stated for the runs in
\* which no external call failed).
C10_RoundTrip ==
    \A p \in Workers :
        (Returned(p, {"get_file_content"})
            /\ loc[p].ret = "tuple" /\ ~faulted) =>
            \A f \in document_files : f.id = loc[p].id =>
                /\ loc[p].ofn = f.filename
                /\ loc[p].oct = f.content_type
                /\ loc[p].odata.enc = "bytes"
                /\ Sha256(loc[p].odata.b) = f.file_hash

\* C2: once two concurrent tasks that recompute the statistics have both
\* finished, the aggregates of every KnowledgeBase row equal the count and
\* the chunk_count sum of the final ChunkSetRecords of its name (stated for
\* the runs in which no external call failed).
C2_RecomputesConverge ==
    ((\A p \in Workers : Returned(p, {"add_chunks_only", "update_knowledge_base_stats"}))
        /\ ~faulted) => \A kb \in KBs : Consistent(kb)

\* C4: a get made after the updates of a task returns the status, progress
\* and message of the most recent update, whether or not durable writes
\* failed and whether or not the durable store is readable.
C4_GetReturnsLatest ==
    (got.code # 0 /\ got.at = Len(updates) /\ Len(updates) > 0) =>
        LET last == updates[Len(updates)] IN
        /\ got.code = 200
        /\ got.status = last.status
        /\ got.progress = last.progress
        /\ got.message = last.message

\* the store call that worker 1 completed follows a completed store call of
\* the same bytes to the same knowledge base, and no external call failed
StoredTwice ==
    /\ Stored(1)
    /\ prev[1].op = "store_file" /\ prev[1].ret = "ok"
    /\ prev[1].b = loc[1].b
    /\ prev[1].akb = loc[1].akb
    /\ ~faulted

\* C7: store(b, f1, kb) followed sequentially by store(b, f2, kb) returns
\* the same file id both times, leaves exactly one FileRecord with hash(b),
\* and the second call writes nothing: the pair performs the one row insert
\* and the at most one upload of the first call (none when the first call
\* was itself deduplicated).
C7_SecondStoreDeduplicates ==
    StoredTwice =>
        /\ loc[1].rid = prev[1].rid
        /\ loc[1].rid # 0
        /\ Cardinality(HashRows(loc[1].b)) = 1
        /\ loc[1].ins = 0 /\ loc[1].upl = 0
        /\ prev[1].ins = (IF prev[1].found THEN 0 ELSE 1)
        /\ prev[1].upl =
              (IF ~prev[1].found /\ should_use_storage(loc[1].b.len) THEN 1 ELSE 0)

C7_Witness ==
    /\ StoredTwice
    /\ ~prev[1].found
    /\ prev[1].fn # loc[1].fn
    /\ prev[1].upl = 1

\* the step in which a refresh of the statistics of worker 1 writes and returns
RecomputeWrites ==
    /\ pc[1] = "st_write" /\ pc'[1] = "idle"
    /\ loc[1].op = "update_knowledge_base_stats"
    /\ ~faulted'

\* C11: a recompute of the statistics of name leaves a row for name whose
\* document_count is the number of ChunkSetRecords of name and whose
\* chunk_count is the sum of their chunk_count, creating the row if absent;
\* when the row already said so (as after a previous recompute with no
\* write in between) the recompute leaves the table as it was.
C11_RecomputeSetsAggregates ==
    [][RecomputeWrites =>
        LET kb == loc[1].akb IN
        /\ knowledge_bases'[kb] =
              [document_count |-> Cardinality(MetaOf(kb)),
               chunk_count |-> SumChunks(MetaOf(kb))]
        /\ (knowledge_bases[kb] # NoRow /\ Consistent(kb))
              => knowledge_bases' = knowledge_bases]_vars

C11_Witness ==
    /\ Returned(1, {"update_knowledge_base_stats"})
    /\ ~faulted
    /\ knowledge_bases[loc[1].akb].document_count >= 2
    /\ knowledge_bases[loc[1].akb].chunk_count >= 2

\* a deletion of worker 1 returned True, no external call has failed, and
\* the instance it ran on is the one of the knowledge base of its targets
Deleted(op) ==
    /\ Returned(1, {op}) /\ loc[1].ret = "True"
    /\ ~faulted
    /\ \A t \in loc[1].tg : t[1] = loc[1].kb

\* C12: delete_chunks_only(id) on an existing chunk-set leaves its record
\* with chunk_count 0, every FileRecord in place and its chunks out of the
\* index; delete_file_and_chunks(id) on an existing file leaves no
\* FileRecord with that id, no ChunkSetRecord with that file_id, and the
\* chunks of those chunk-sets out of the index.
C12_DeletionEffects ==
    /\ Deleted("delete_chunks_only") =>
          /\ \E m \in document_metadata : m.id = loc[1].id /\ m.chunk_count = 0
          /\ Cardinality(document_files) = loc[1].snap[2]
          /\ \A t \in loc[1].tg : embeddings[t] = 0
    /\ Deleted("delete_file_and_chunks") =>
          /\ \A f \in document_files : f.id # loc[1].id
          /\ \A m \in document_metadata : m.file_id # loc[1].id
          /\ \A t \in loc[1].tg : embeddings[t] = 0

\* the knowledge base a call is invoked for: the name it is given, or the
\* collection of the instance it runs on
Scope(frame) ==
    IF frame.op \in {"clear_knowledge_base", "update_knowledge_base_stats"}
    THEN frame.akb ELSE frame.kb

\* a step leaves everything scoped to kb as it is
LeavesAlone(kb) ==
    /\ {m \in document_metadata' : m.collection_name = kb} = MetaOf(kb)
    /\ {f \in document_files' : f.collection_name = kb} = FilesOf(kb)
    /\ knowledge_bases'[kb] = knowledge_bases[kb]
    /\ \A fn \in Filenames : embeddings'[<<kb, fn>>] = embeddings[<<kb, fn>>]

\* C13: every step of a call invoked for knowledge base A leaves what is
\* scoped to any other knowledge base unchanged (stated for the runs in
\* which no external call fails).
C13_OtherScopesUntouched ==
    [][(pc[1] # "idle" /\ ~faulted') =>
        \A kb \in KBs \ {Scope(loc[1])} : LeavesAlone(kb)]_vars

\* the ChunkSetRecords with filename fn in kb
ChunkSets(kb, fn) ==
    {m \in document_metadata : m.filename = fn /\ m.collection_name = kb}

\* C14: once store_raw_file_only(bytes, f) has returned on a knowledge base
\* that holds chunk-sets of f, every such ChunkSetRecord has the id of the
\* FileRecord of f in that knowledge base as its file_id (stated for the
\* runs in which no external call fails).
C14_LinkedOnceBothDone ==
    (/\ Returned(1, {"store_raw_file_only"}) /\ ~faulted
     /\ ChunkSets(loc[1].kb, loc[1].fn) # {}) =>
        \A m \in ChunkSets(loc[1].kb, loc[1].fn) :
            \E f \in FilesOf(loc[1].kb) :
                f.original_filename = loc[1].fn /\ m.file_id = f.id

\* what update_task_progress records of a task besides the timestamps
Outcome(row) == <<row.status, row.progress, row.error>>

\* C15: once the durable row or the memory entry of a task is completed or
\* failed, no step changes its status, progress or error, and a get that
\* follows a get which returned completed or failed does not return pending
\* or processing.
C15_TerminalIsFinal ==
    [][/\ task_status.status \in Terminal => Outcome(task_status') = Outcome(task_status)
       /\ progress_storage.status \in Terminal =>
              Outcome(progress_storage') = Outcome(progress_storage)
       /\ got.status \in Terminal => got'.status \notin {"pending", "processing"}]_vars

\* C16: when the background task of an upload is over and some step of it
\* failed or raised, the last recorded update is failed with an error text,
\* and the recorded statuses are pending, then processing, then failed.
C16_FailureEndsFailed ==
    (task.pc = "done" /\ faulted) =>
        /\ updates[Len(updates)].status = "failed"
        /\ updates[Len(updates)].error \notin {"None", ""}
        /\ updates[1].status = "pending"
        /\ \A i \in 2 .. Len(updates) - 1 : updates[i].status = "processing"

\* a recorded or returned TaskProgress is within the recognized values
InRange(row) == row.status \in Statuses /\ row.progress >= 0 /\ row.progress <= 100

C18_CreatedAtFixed ==
    [][/\ task_status # NoTask => task_status'.created_at = task_status.created_at
       /\ progress_storage # NoTask =>
              /\ progress_storage'.created_at = progress_storage.created_at
              /\ task_status' # NoTask =>
                     task_status'.created_at = progress_storage.created_at]_vars

\* worker 1 is about to write the ChunkSetRecord of its upload
WritesChunkSet == pc[1] \in {"cm_insert", "fm_meta"}

\* C19: while no external call fails, the metadata step of an ingestion
\* adds exactly one ChunkSetRecord, of the uploaded filename and the
\* instance's collection, whose chunk_count is the number of chunks the
\* call added to the index; and between calls there are as many
\* ChunkSetRecords as there were uploads.
C19_OneRecordPerDocument ==
    [][/\ (WritesChunkSet /\ ~faulted') =>
              \E m \in document_metadata' \ document_metadata :
                  /\ document_metadata' = document_metadata \cup {m}
                  /\ m.filename = loc[1].fn
                  /\ m.collection_name = loc[1].kb
                  /\ m.chunk_count = loc[1].added
       /\ (Idle(1)' /\ ~faulted') => Cardinality(document_metadata') = calls']_vars

C19_Witness ==
    /\ Returned(1, {"add_chunks_only"}) /\ loc[1].ret = "True" /\ ~faulted
    /\ calls = 2
    /\ \E m \in document_metadata : m.chunk_count = BigSplit /\ m.id = nextId - 1

\* C20: a ChunkSetRecord is created with a positive chunk_count and a fresh
\* id, and the chunk_count of an existing record changes only to 0 and only
\* in a step of delete_chunks_only.
C20_ChunkSetLifecycle ==
    [][\A m \in document_metadata' :
          /\ (\A o \in document_metadata : o.id # m.id) =>
                m.chunk_count > 0 /\ m.id >= nextId
          /\ \A o \in document_metadata :
                (o.id = m.id /\ o.chunk_count # m.chunk_count) =>
                    m.chunk_count = 0 /\ loc[1].op = "delete_chunks_only"]_vars

\* delete_chunks_only has truncated a chunked record, which is retained
C20_Witness ==
    /\ Returned(1, {"delete_chunks_only"}) /\ loc[1].ret = "True"
    /\ \E m \in document_metadata : m.id = loc[1].id /\ m.chunk_count = 0
    /\ \E m \in document_metadata : m.chunk_count > 0

\* C28: whenever no operation is in progress, the index holds, for every
\* knowledge base and filename, as many chunks as the chunk_count of the
\* ChunkSetRecords of that filename and knowledge base add up to (stated for
\* the runs in which no external call fails).
C28_IndexMatchesChunkCounts ==
    (Quiescent /\ ~faulted) =>
        \A kb \in KBs, fn \in Filenames :
            embeddings[<<kb, fn>>] = SumChunks(ChunkSets(kb, fn))

\* C29: every ChunkSetRecord with a file_id refers to an existing FileRecord
\* of the same filename and the same knowledge base (stated for the runs in
\* which no external call fails).
C29_LinkedFileMatches ==
    ~faulted =>
        \A m \in document_metadata :
            m.file_id # 0 =>
                \E f \in document_files :
                    /\ f.id = m.file_id
                    /\ f.original_filename = m.filename
                    /\ f.collection_name = m.collection_name

\* C30: when concurrent recomputes of one name write their result, each
\* write that ends without a failed request leaves the row of that name
\* with the aggregates that call computed, whether or not another call
\* created the row first.
C30_NoLostUpdate ==
    [][\A p \in Workers :
          (pc[p] = "st_write" /\ pc'[p] = "idle" /\ ~faulted') =>
              knowledge_bases'[StatsKb(loc[p])] = KbRow(loc[p])]_vars

\* the object of a storage path is in the bucket
HasObject(path) == \E o \in bucket : o.path = path

SplitDone == splitter.state = "done"

\* C21: every chunk split_text returns is at most chunk_size + 2 *
\* chunk_overlap characters long, for every text and every configuration
\* with chunk_overlap < chunk_size.
C21_ChunkLengthBound ==
    SplitDone =>
        \A i \in 1 .. Len(splitter.chunks) :
            Len(splitter.chunks[i]) <= splitter.chunk_size + 2 * splitter.chunk_overlap

Concat[chunks \in TextList] ==
    IF chunks = <<>> THEN <<>> ELSE Head(chunks) \o Concat[Tail(chunks)]

\* the characters of a text that are not whitespace, in order
Ink[t \in Text] ==
    IF t = <<>> THEN <<>>
    ELSE (IF Head(t) \in Whitespace THEN <<>> ELSE <<Head(t)>>) \o Ink[Tail(t)]

\* C22: for a text longer than chunk_size, the chunks before the overlap is
\* added, concatenated in order, carry exactly the characters of the text's
\* paragraphs: none is dropped or duplicated (whitespace between pieces
\* aside).
C22_CoresReconstructText ==
    (SplitDone /\ Len(splitter.text) > splitter.chunk_size) =>
        Ink[Concat[splitter.base]] = Ink[splitter.text]

\* C24: for a text of at most chunk_size characters split_text returns one
\* chunk that equals the text after trimming and has nothing added to it,
\* and for the empty text it returns no chunk.
C24_ShortTextIsOneChunk ==
    (SplitDone /\ Len(splitter.text) <= splitter.chunk_size) =>
        IF splitter.text = <<>> THEN splitter.chunks = <<>>
        ELSE /\ Len(splitter.chunks) = 1
             /\ Strip(splitter.chunks[1]) = Strip(splitter.text)
             /\ Len(splitter.chunks[1]) <= Len(splitter.text)

C24_Witness ==
    /\ SplitDone /\ splitter.chunk_overlap > 0
    /\ Len(splitter.text) = splitter.chunk_size
    /\ splitter.chunks = <<splitter.text>>
    /\ Strip(splitter.text) # splitter.text

\* C26: before the overlap is added, every chunk is at most chunk_size
\* characters long, for every text.
C26_BaseChunksFit ==
    SplitDone =>
        \A i \in 1 .. Len(splitter.base) : Len(splitter.base[i]) <= splitter.chunk_size

\* the sentences of the oversized paragraphs of the text that are longer
\* than chunk_size
LongSentences ==
    LET paragraphs == split_by_paragraphs(splitter.text)
        long(pieces) == {pieces[i] : i \in {k \in 1 .. Len(pieces) :
                                               Len(pieces[k]) > splitter.chunk_size}}
    IN  UNION {long(split_by_sentences(p)) : p \in long(paragraphs)}

\* chunks occur in the list as consecutive members
Contiguous(chunks, list) ==
    \E k \in 0 .. Len(list) - Len(chunks) :
        \A i \in 1 .. Len(chunks) : list[k + i] = chunks[i]

\* C25: split_text returns for every text and every chunk_size >= 1, and
\* a sentence longer than chunk_size comes out as consecutive slices of
\* exactly chunk_size characters, the last one possibly shorter, whose
\* concatenation is the sentence.
C25_TerminatesWithExactSlices ==
    /\ <>SplitDone
    /\ [](SplitDone /\ Len(splitter.text) > splitter.chunk_size =>
            \A sentence \in LongSentences :
                LET slices == Slices(sentence, splitter.chunk_size)
                IN  /\ Concat[slices] = sentence
                    /\ \A i \in 1 .. Len(slices) - 1 : Len(slices[i]) = splitter.chunk_size
                    /\ Len(slices[Len(slices)]) \in 1 .. splitter.chunk_size
                    /\ Contiguous(slices, splitter.base))

C25_Witness ==
    /\ SplitDone /\ splitter.chunk_size = 2
    /\ \E sentence \in LongSentences : Len(sentence) = 5
    /\ Len(splitter.base) = 3

\* C23: for every configured pair with chunk_overlap >= chunk_size the
\* splitter uses the overlap chunk_size / 4 (integer division), which is
\* strictly less than its chunk_size; a pair with chunk_overlap <
\* chunk_size is used as configured.
C23_OverlapClamped ==
    splitter.state = "constructed" =>
        LET size == splitter.config[1]
            overlap == splitter.config[2]
        IN  /\ splitter.chunk_size = size
            /\ IF overlap >= size
               THEN /\ splitter.chunk_overlap = size \div 4
                    /\ splitter.chunk_overlap < splitter.chunk_size
               ELSE splitter.chunk_overlap = overlap

====
